---------------------------- MODULE Spec2Model ----------------------------
(***************************************************************************)
(* Model of svgwrite/interface.py: the mix-in interfaces IViewBox,         *)
(* ITransform, IXLink and IPresentation, which format their arguments and  *)
(* write them into the attribute dictionary of the host element.           *)
(*                                                                         *)
(* Python values are tagged tuples <<tag, payload>>; a Python string is    *)
(* the sequence of its characters, so that formatting, joining and         *)
(* strip() are computed character by character.  A dict is a function      *)
(* whose DOMAIN is the set of keys that are present.                       *)
(***************************************************************************)
EXTENDS Integers, Sequences, FiniteSets, TLC

\* ------------------------------------------------------------------ bounds
\* most transform calls between two del_transform calls
MaxTransforms == 3
\* most identifiers the allocator hands out
MaxIds == 3

\* ----------------------------------------------------------- Python values
PyNone == <<"None">>
PyInt(n) == <<"int", n>>
PyStr(s) == <<"str", s>>
PyTuple(xs) == <<"tuple", xs>>
\* a reference to an element object (anything that is not a basestring)
PyElem(e) == <<"elem", e>>

Tag(v) == v[1]
Val(v) == v[2]

\* truth value of an object, as tested by `if x:`
Truthy(v) ==
    CASE Tag(v) = "None" -> FALSE
      [] Tag(v) = "int" -> Val(v) # 0
      [] Tag(v) = "str" -> Val(v) # <<>>
      [] Tag(v) = "tuple" -> Val(v) # <<>>
      [] OTHER -> TRUE

Digits == <<"0", "1", "2", "3", "4", "5", "6", "7", "8", "9">>

RECURSIVE NatToStr(_)
NatToStr(n) ==
    IF n < 10 THEN <<Digits[n + 1]>>
    ELSE NatToStr(n \div 10) \o <<Digits[(n % 10) + 1]>>

IntToStr(n) == IF n < 0 THEN <<"-">> \o NatToStr(-n) ELSE NatToStr(n)

\* str(v), which is what a %s conversion inserts
str(v) ==
    CASE Tag(v) = "None" -> <<"N", "o", "n", "e">>
      [] Tag(v) = "int" -> IntToStr(Val(v))
      [] Tag(v) = "str" -> Val(v)

Whitespace == {" ", "\t", "\n", "\r"}

RECURSIVE lstrip(_)
lstrip(s) ==
    IF s # <<>> /\ Head(s) \in Whitespace THEN lstrip(Tail(s)) ELSE s

RECURSIVE rstrip(_)
rstrip(s) ==
    IF s # <<>> /\ s[Len(s)] \in Whitespace
    THEN rstrip(SubSeq(s, 1, Len(s) - 1))
    ELSE s

\* str.strip() without arguments
strip(s) == rstrip(lstrip(s))

\* ------------------------------------------------------------------ dicts
EmptyDict == [k \in {} |-> PyNone]

\* d.get(key, default)
DictGet(d, key, default) == IF key \in DOMAIN d THEN d[key] ELSE default

\* d[key] = value
DictSet(d, key, value) ==
    [k \in DOMAIN d \cup {key} |-> IF k = key THEN value ELSE d[k]]

\* d.pop(key, None), as far as the dict is concerned
DictPop(d, key) == [k \in DOMAIN d \ {key} |-> d[k]]

\* d.setdefault(key, default): the dict afterwards; the call returns
\* DictSetDefault(d, key, default)[key]
DictSetDefault(d, key, default) ==
    IF key \in DOMAIN d THEN d ELSE DictSet(d, key, default)

\* self[key] = value: BaseElement.__setitem__ stores into self.attribs
setitem(d, key, value) == DictSet(d, key, value)

\* ------------------------------------------------------- string literals
S_space == <<" ">>
S_comma == <<",">>
S_close == <<")">>
S_hash == <<"#">>
S_id == <<"i", "d">>
S_none == <<"n", "o", "n", "e">>
S_translate == <<"t", "r", "a", "n", "s", "l", "a", "t", "e", "(">>
S_rotate == <<"r", "o", "t", "a", "t", "e", "(">>
S_scale == <<"s", "c", "a", "l", "e", "(">>
S_skewX == <<"s", "k", "e", "w", "X", "(">>
S_skewY == <<"s", "k", "e", "w", "Y", "(">>
S_matrix == <<"m", "a", "t", "r", "i", "x", "(">>
S_left == <<"l", "e", "f", "t">>
S_center == <<"c", "e", "n", "t", "e", "r">>
S_right == <<"r", "i", "g", "h", "t">>
S_top == <<"t", "o", "p">>
S_middle == <<"m", "i", "d", "d", "l", "e">>
S_bottom == <<"b", "o", "t", "t", "o", "m">>
S_xMin == <<"x", "M", "i", "n">>
S_xMid == <<"x", "M", "i", "d">>
S_xMax == <<"x", "M", "a", "x">>
S_YMin == <<"Y", "M", "i", "n">>
S_YMid == <<"Y", "M", "i", "d">>
S_YMax == <<"Y", "M", "a", "x">>
S_meet == <<"m", "e", "e", "t">>
S_slice == <<"s", "l", "i", "c", "e">>
S_bogus == <<"b", "o", "g", "u", "s">>
S_foo == <<"f", "o", "o">>
S_id1 == <<"i", "d", "1">>
S_invalid_scale ==
    <<"I", "n", "v", "a", "l", "i", "d", " ", "s", "c", "a", "l", "e", " ",
      "p", "a", "r", "a", "m", "e", "t", "e", "r", " ", "'">>
S_quote == <<"'">>
S_join_undefined ==
    <<"g", "l", "o", "b", "a", "l", " ", "n", "a", "m", "e", " ", "'", "j", "o",
      "i", "n", "'", " ", "i", "s", " ", "n", "o", "t", " ", "d", "e", "f", "i",
      "n", "e", "d">>
S_evenodd == <<"e", "v", "e", "n", "o", "d", "d">>
S_round == <<"r", "o", "u", "n", "d">>
S_dashes == <<"5", ",", "3">>
S_red == <<"r", "e", "d">>
S_blue == <<"b", "l", "u", "e">>

\* ------------------------------------------------------------------ state
Elements == {"e0", "e1", "e2"}
\* the element the interface methods are called on
Self == "e0"

\* an exception is <<kind, message>>; NoExc stands for a call that returned
NoExc == <<"">>
Exc(kind, message) == <<kind, message>>
Kind(exc) == exc[1]

NoCall == [call |-> "", args |-> <<>>, raised |-> NoExc, before |-> <<>>]

VARIABLES
    attribs,    \* attribs[e]: the attribute dict of element e
    href,       \* self.href, the target of the last set_href
    idcount,    \* state of the identifier allocator behind nextid()
    debug,      \* self.debug, the strict validation flag
    last,       \* the last call: name, arguments, exception raised, and the
                \* names of the two calls before it
    pre,        \* attribs and idcount as they were when the last call began
    tokens,     \* tokens passed to _add_transformation since the last clear
    referenced, \* referenced[e]: the id e had when set_href last resolved it
    allocated   \* the elements whose id was produced by nextid()

vars == <<attribs, href, idcount, debug, last, pre, tokens, referenced, allocated>>

Unset == <<"unset">>

\* the names of the last two calls, the most recent one last
Recent == IF last.call = "" THEN <<>>
          ELSE IF last.before = <<>> THEN <<last.call>>
          ELSE <<last.before[Len(last.before)], last.call>>

\* record of a call on Self
Called(name, args, raised) ==
    /\ last' = [call |-> name, args |-> args, raised |-> raised,
                before |-> Recent]
    /\ pre' = [attribs |-> attribs, idcount |-> idcount]

\* an element as constructed: no attributes, or an id given by the caller
InitDicts ==
    {EmptyDict, DictSet(EmptyDict, "id", PyStr(S_foo)),
     DictSet(EmptyDict, "id", PyStr(S_id1))}

Init ==
    /\ attribs \in [Elements -> InitDicts]
    /\ href = Unset
    /\ idcount = 0
    /\ debug \in BOOLEAN
    /\ last = NoCall
    /\ pre = [attribs |-> attribs, idcount |-> idcount]
    /\ tokens = <<>>
    /\ referenced = EmptyDict
    /\ allocated = {}

\* ------------------------------------------------------------ utils.strlist
RECURSIVE iterflatlist(_)
iterflatlist(values) ==
    IF values = <<>> THEN <<>>
    ELSE IF Tag(Head(values)) = "tuple"
         THEN iterflatlist(Val(Head(values))) \o iterflatlist(Tail(values))
         ELSE <<Head(values)>> \o iterflatlist(Tail(values))

RECURSIVE NotNone(_)
NotNone(values) ==
    IF values = <<>> THEN <<>>
    ELSE IF Head(values) = PyNone THEN NotNone(Tail(values))
         ELSE <<Head(values)>> \o NotNone(Tail(values))

\* seperator.join(strings)
RECURSIVE join(_, _)
join(seperator, strings) ==
    IF strings = <<>> THEN <<>>
    ELSE IF Len(strings) = 1 THEN strings[1]
         ELSE strings[1] \o seperator \o join(seperator, Tail(strings))

\* strlist(values): the values that are not None, nested ones flattened,
\* each converted with str and joined by a comma
strlist(values) ==
    LET flat == NotNone(iterflatlist(values))
    IN  join(S_comma, [i \in 1..Len(flat) |-> str(flat[i])])

\* --------------------------------------------------------------- ITransform
\* a slip that replaces the attribute instead of appending to it
_add_transformation_replace(a, new_transform) ==
    setitem(a, "transform", PyStr(strip(new_transform)))

\* "%s %s" % (old_transform, new_transform), stripped
_add_transformation(a, new_transform) ==
    LET old_transform == DictGet(a, "transform", PyStr(<<>>))
    IN  setitem(a, "transform",
                PyStr(strip(str(old_transform) \o S_space \o new_transform)))

\* a transform method: format the token, hand it to _add_transformation
Transform(name, args, token) ==
    /\ attribs' = [attribs EXCEPT ![Self] = _add_transformation(@, token)]
    /\ tokens' = Append(tokens, token)
    /\ Called(name, args, NoExc)
    /\ UNCHANGED <<href, idcount, debug, referenced, allocated>>

Numbers == {PyInt(10), PyInt(-5)}
Angles == {PyInt(45)}
Factors == {PyInt(2)}
Optional == {PyNone, PyInt(20)}
Centers == {PyNone, PyTuple(<<PyInt(5), PyInt(5)>>)}

translate ==
    \E tx \in Numbers, ty \in Optional :
        /\ Len(tokens) < MaxTransforms
        /\ Transform("translate", <<tx, ty>>,
                     S_translate \o strlist(<<tx, ty>>) \o S_close)

rotate ==
    \E angle \in Angles, center \in Centers :
        /\ Len(tokens) < MaxTransforms
        /\ Transform("rotate", <<angle, center>>,
                     S_rotate \o strlist(<<angle, center>>) \o S_close)

scale ==
    \E sx \in Factors, sy \in Optional :
        /\ Len(tokens) < MaxTransforms
        /\ Transform("scale", <<sx, sy>>,
                     S_scale \o strlist(<<sx, sy>>) \o S_close)

skewX ==
    \E angle \in Angles :
        /\ Len(tokens) < MaxTransforms
        /\ Transform("skewX", <<angle>>, S_skewX \o str(angle) \o S_close)

skewY ==
    \E angle \in Angles :
        /\ Len(tokens) < MaxTransforms
        /\ Transform("skewY", <<angle>>, S_skewY \o str(angle) \o S_close)

matrix ==
    \E a \in Numbers :
        LET args == <<a, PyInt(0), PyInt(0), a, PyInt(1), PyInt(2)>>
        IN  /\ Len(tokens) < MaxTransforms
            /\ Transform("matrix", args, S_matrix \o strlist(args) \o S_close)

\* a slip that empties the attribute instead of removing the key
del_transform_empty ==
    /\ attribs' = [attribs EXCEPT ![Self] = setitem(@, "transform", PyStr(<<>>))]
    /\ tokens' = <<>>
    /\ Called("del_transform", <<>>, NoExc)
    /\ UNCHANGED <<href, idcount, debug, referenced, allocated>>

del_transform ==
    /\ attribs' = [attribs EXCEPT ![Self] = DictPop(@, "transform")]
    /\ tokens' = <<>>
    /\ Called("del_transform", <<>>, NoExc)
    /\ UNCHANGED <<href, idcount, debug, referenced, allocated>>

InitTransform ==
    /\ Init
    /\ debug = FALSE
    /\ \A e \in Elements \ {Self} : attribs[e] = EmptyDict

NextTransform ==
    \/ translate
    \/ rotate
    \/ scale
    \/ skewX
    \/ skewY
    \/ matrix
    \/ del_transform

SpecTransform == InitTransform /\ [][NextTransform]_vars

TransformOps == {"translate", "rotate", "scale", "skewX", "skewY", "matrix"}

L_translate10 == <<"t", "r", "a", "n", "s", "l", "a", "t", "e", "(", "1", "0", ")">>
L_scale2 == <<"s", "c", "a", "l", "e", "(", "2", ")">>

\* C1: as long as no del_transform intervenes, the 'transform' attribute is
\* the tokens of the transform calls made so far, in call order, joined by
\* exactly one space, without leading or trailing whitespace; before the
\* first call the key is absent.  translate(10) then scale(2) gives
\* "translate(10) scale(2)".
Thm_C1 ==
    LET a == attribs[Self]
    IN  /\ tokens = <<>> => "transform" \notin DOMAIN a
        /\ tokens # <<>> =>
              /\ "transform" \in DOMAIN a
              /\ a["transform"] = PyStr(join(S_space, tokens))
              /\ Head(Val(a["transform"])) \notin Whitespace
              /\ Val(a["transform"])[Len(Val(a["transform"]))] \notin Whitespace
        /\ tokens = <<L_translate10, L_scale2>> =>
              a["transform"] = PyStr(L_translate10 \o <<" ">> \o L_scale2)

\* translate(10), scale(2) and a rotate were applied in this order
Witness_C1 ==
    /\ Len(tokens) = 3
    /\ tokens[1] = L_translate10
    /\ tokens[2] = L_scale2
    /\ last.call = "rotate"
    /\ last.before = <<"translate", "scale">>
    /\ Len(Val(attribs[Self]["transform"])) > Len(L_translate10) + Len(L_scale2) + 2

\* C2: del_transform raises nothing, leaves the dict without the key
\* 'transform' and with every other key as it was, also when the key was
\* already absent; the transform call after a clear stores its token alone.
Thm_C2 ==
    /\ last.call = "del_transform" =>
          /\ last.raised = NoExc
          /\ "transform" \notin DOMAIN attribs[Self]
          /\ DOMAIN attribs[Self] = DOMAIN pre.attribs[Self] \ {"transform"}
          /\ \A k \in DOMAIN attribs[Self] : attribs[Self][k] = pre.attribs[Self][k]
          /\ \A e \in Elements \ {Self} : attribs[e] = pre.attribs[e]
          /\ "transform" \notin DOMAIN pre.attribs[Self] => attribs = pre.attribs
    /\ ( /\ last.call \in TransformOps
         /\ last.before # <<>>
         /\ last.before[Len(last.before)] = "del_transform" ) =>
          /\ Len(tokens) = 1
          /\ attribs[Self]["transform"] = PyStr(tokens[1])

\* a second del_transform in a row, after one that removed an existing
\* transform list, on an element that has another attribute
Witness_C2 ==
    /\ last.call = "del_transform"
    /\ last.before = <<"translate", "del_transform">>
    /\ DOMAIN attribs[Self] = {"id"}
    /\ attribs = pre.attribs

\* ----------------------------------------------------------------- IViewBox
_horiz == (S_center :> S_xMid) @@ (S_left :> S_xMin) @@ (S_right :> S_xMax)
_vert == (S_middle :> S_YMid) @@ (S_top :> S_YMin) @@ (S_bottom :> S_YMax)

viewbox ==
    \E minx \in {PyInt(0)}, miny \in {PyInt(0)},
       width \in {PyInt(100)}, height \in {PyInt(50)} :
        /\ attribs' = [attribs EXCEPT ![Self] =
                         setitem(@, "viewBox",
                                 PyStr(strlist(<<minx, miny, width, height>>)))]
        /\ Called("viewbox", <<minx, miny, width, height>>, NoExc)
        /\ UNCHANGED <<href, idcount, debug, tokens, referenced, allocated>>

stretch ==
    /\ attribs' = [attribs EXCEPT ![Self] =
                     setitem(@, "preserveAspectRatio", PyStr(S_none))]
    /\ Called("stretch", <<>>, NoExc)
    /\ UNCHANGED <<href, idcount, debug, tokens, referenced, allocated>>

\* a slip that validates the scale in no mode
fit_call_unchecked(a, dbg, horiz, vert, scalearg) ==
    IF horiz \notin DOMAIN _horiz
    THEN [raised |-> Exc("KeyError", S_quote \o horiz \o S_quote), attribs |-> a]
    ELSE IF vert \notin DOMAIN _vert
    THEN [raised |-> Exc("KeyError", S_quote \o vert \o S_quote), attribs |-> a]
    ELSE [raised |-> NoExc,
          attribs |-> setitem(a, "preserveAspectRatio",
                        PyStr(_horiz[horiz] \o _vert[vert] \o S_space \o scalearg))]

\* a slip that looks the keys up with a default, _horiz.get(horiz, 'xMid')
fit_call_default(a, dbg, horiz, vert, scalearg) ==
    IF dbg /\ scalearg \notin {S_meet, S_slice}
    THEN [raised |-> Exc("ValueError", S_invalid_scale \o scalearg \o S_quote),
          attribs |-> a]
    ELSE [raised |-> NoExc,
          attribs |-> setitem(a, "preserveAspectRatio",
                        PyStr(DictGet(_horiz, horiz, S_xMid)
                              \o DictGet(_vert, vert, S_YMid)
                              \o S_space \o scalearg))]

\* the body of fit on the dict a with self.debug = dbg: the exception it
\* raises, if any, and the dict it leaves
fit_call(a, dbg, horiz, vert, scalearg) ==
    IF dbg /\ scalearg \notin {S_meet, S_slice}
    THEN [raised |-> Exc("ValueError", S_invalid_scale \o scalearg \o S_quote),
          attribs |-> a]
    ELSE IF horiz \notin DOMAIN _horiz
    THEN [raised |-> Exc("KeyError", S_quote \o horiz \o S_quote), attribs |-> a]
    ELSE IF vert \notin DOMAIN _vert
    THEN [raised |-> Exc("KeyError", S_quote \o vert \o S_quote), attribs |-> a]
    ELSE [raised |-> NoExc,
          attribs |-> setitem(a, "preserveAspectRatio",
                        PyStr(_horiz[horiz] \o _vert[vert] \o S_space \o scalearg))]

HorizArgs == {S_left, S_center, S_right, S_bogus}
VertArgs == {S_top, S_middle, S_bottom, S_bogus}
ScaleArgs == {S_meet, S_slice, S_bogus}

fit ==
    \E horiz \in HorizArgs, vert \in VertArgs, scalearg \in ScaleArgs :
        LET r == fit_call(attribs[Self], debug, horiz, vert, scalearg)
        IN  /\ attribs' = [attribs EXCEPT ![Self] = r.attribs]
            /\ Called("fit", <<PyStr(horiz), PyStr(vert), PyStr(scalearg)>>,
                      r.raised)
            /\ UNCHANGED <<href, idcount, debug, tokens, referenced, allocated>>

InitViewBox ==
    /\ Init
    /\ \A e \in Elements : attribs[e] = EmptyDict

NextViewBox ==
    \/ viewbox
    \/ stretch
    \/ fit

SpecViewBox == InitViewBox /\ [][NextViewBox]_vars

\* s occurs in t
RECURSIVE Contains(_, _)
Contains(t, s) ==
    IF Len(t) < Len(s) THEN FALSE
    ELSE SubSeq(t, 1, Len(s)) = s \/ Contains(Tail(t), s)

FitArg(i) == Val(last.args[i])

L_xMidYMid_meet == <<"x", "M", "i", "d", "Y", "M", "i", "d", " ", "m", "e", "e", "t">>
L_xMidYMid_bogus ==
    <<"x", "M", "i", "d", "Y", "M", "i", "d", " ", "b", "o", "g", "u", "s">>
L_xMinYMin_slice ==
    <<"x", "M", "i", "n", "Y", "M", "i", "n", " ", "s", "l", "i", "c", "e">>

\* the dict of Self but for key k is as it was before the last call
SameBut(k) ==
    /\ DOMAIN attribs[Self] \ {k} = DOMAIN pre.attribs[Self] \ {k}
    /\ \A x \in DOMAIN attribs[Self] \ {k} : attribs[Self][x] = pre.attribs[Self][x]
    /\ \A e \in Elements \ {Self} : attribs[e] = pre.attribs[e]

\* C5: fit with valid alignment keys: in debug mode a scale other than
\* 'meet' and 'slice' raises ValueError (the invalid-argument error) with a
\* message naming the value, and the attributes are as before; otherwise
\* the call returns and 'preserveAspectRatio' is '<align> <scale>', the
\* scale verbatim; fit() gives 'xMidYMid meet'.
Thm_C5 ==
    ( /\ last.call = "fit"
      /\ FitArg(1) \in {S_left, S_center, S_right}
      /\ FitArg(2) \in {S_top, S_middle, S_bottom} ) =>
        IF debug /\ FitArg(3) \notin {S_meet, S_slice}
        THEN /\ Kind(last.raised) = "ValueError"
             /\ Contains(last.raised[2], FitArg(3))
             /\ attribs = pre.attribs
        ELSE /\ last.raised = NoExc
             /\ "preserveAspectRatio" \in DOMAIN attribs[Self]
             /\ LET v == Val(attribs[Self]["preserveAspectRatio"])
                IN  /\ SubSeq(v, 9, Len(v)) = S_space \o FitArg(3)
                    /\ <<FitArg(1), FitArg(2), FitArg(3)>> = <<S_center, S_middle, S_meet>>
                         => v = L_xMidYMid_meet
                    /\ <<FitArg(1), FitArg(2), FitArg(3)>> = <<S_center, S_middle, S_bogus>>
                         => v = L_xMidYMid_bogus
                    /\ <<FitArg(1), FitArg(2), FitArg(3)>> = <<S_left, S_top, S_slice>>
                         => v = L_xMinYMin_slice
             /\ SameBut("preserveAspectRatio")

\* strict mode, fit(scale='bogus') on an element whose preserveAspectRatio
\* was set before: the call raised and the prior value is kept
Witness_C5 ==
    /\ last.call = "fit"
    /\ debug
    /\ last.args = <<PyStr(S_center), PyStr(S_middle), PyStr(S_bogus)>>
    /\ Kind(last.raised) = "ValueError"
    /\ "preserveAspectRatio" \in DOMAIN pre.attribs[Self]
    /\ "preserveAspectRatio" \in DOMAIN attribs[Self]
    /\ attribs[Self]["preserveAspectRatio"] = PyStr(L_xMinYMin_slice)

BadKey ==
    \/ FitArg(1) \notin {S_left, S_center, S_right}
    \/ FitArg(2) \notin {S_top, S_middle, S_bottom}

NineAligns ==
    {x \o y : x \in {S_xMin, S_xMid, S_xMax}, y \in {S_YMin, S_YMid, S_YMax}}

\* C6 as stated: an unrecognized horiz or vert always fails with KeyError,
\* in either mode, and leaves the attributes as they were.
Orig_C6 ==
    (last.call = "fit" /\ BadKey) =>
        /\ Kind(last.raised) = "KeyError"
        /\ attribs = pre.attribs

\* C6 amended: an unrecognized horiz or vert always makes fit fail and leave
\* the attributes as they were; the failure is a KeyError, except that in
\* debug mode with a scale other than 'meet' and 'slice' the scale check
\* comes first and the failure is the ValueError.  With valid keys the
\* alignment token is _horiz[horiz] followed by _vert[vert], one of the nine
\* x{Min,Mid,Max}Y{Min,Mid,Max}.
Thm_C6 ==
    /\ (last.call = "fit" /\ BadKey) =>
          /\ attribs = pre.attribs
          /\ Kind(last.raised) =
               IF debug /\ FitArg(3) \notin {S_meet, S_slice}
               THEN "ValueError" ELSE "KeyError"
    /\ (last.call = "fit" /\ ~BadKey /\ last.raised = NoExc) =>
          LET v == Val(attribs[Self]["preserveAspectRatio"])
          IN  /\ SubSeq(v, 1, 8) = _horiz[FitArg(1)] \o _vert[FitArg(2)]
              /\ SubSeq(v, 1, 8) \in NineAligns
              /\ v[9] = " "

\* permissive mode, fit(horiz='bogus') after a fit that stored a value
Witness_C6 ==
    /\ last.call = "fit"
    /\ ~debug
    /\ last.args = <<PyStr(S_bogus), PyStr(S_middle), PyStr(S_meet)>>
    /\ Kind(last.raised) = "KeyError"
    /\ "preserveAspectRatio" \in DOMAIN attribs[Self]
    /\ attribs[Self]["preserveAspectRatio"] = PyStr(L_xMinYMin_slice)
    /\ "viewBox" \in DOMAIN attribs[Self]
    /\ attribs = pre.attribs

\* -------------------------------------------------------------------- IXLink
\* nextid() of the host element with the allocator in state n: the
\* identifier it returns and the state it leaves
nextid(n) == [id |-> PyStr(S_id \o IntToStr(n + 1)), idcount |-> n + 1]

\* a slip that stores the new identifier over an existing 'id'
update_id_overwrite(A, h, n) ==
    IF Tag(h) = "str"
    THEN [attribs |-> [A EXCEPT ![Self] =
                         DictSet(@, "xlink:href", PyStr(S_hash \o str(h)))],
          idcount |-> n]
    ELSE LET new == nextid(n)
             A1 == [A EXCEPT ![Val(h)] = DictSet(@, "id", new.id)]
             idstr == A1[Val(h)]["id"]
         IN  [attribs |-> [A1 EXCEPT ![Self] =
                             DictSet(@, "xlink:href", PyStr(S_hash \o str(idstr)))],
              idcount |-> new.idcount]

\* a slip that keeps an 'xlink:href' that is already there
update_id_keep(A, h, n) ==
    IF Tag(h) = "str"
    THEN [attribs |-> [A EXCEPT ![Self] =
                         DictSetDefault(@, "xlink:href", PyStr(S_hash \o str(h)))],
          idcount |-> n]
    ELSE LET new == nextid(n)
             A1 == [A EXCEPT ![Val(h)] = DictSetDefault(@, "id", new.id)]
             idstr == A1[Val(h)]["id"]
         IN  [attribs |-> [A1 EXCEPT ![Self] =
                             DictSetDefault(@, "xlink:href",
                                            PyStr(S_hash \o str(idstr)))],
              idcount |-> new.idcount]

\* update_id with self.href = h, all attribute dicts A and the allocator in
\* state n.  The argument self.nextid() of setdefault is evaluated before
\* setdefault looks the key up, so the allocator is called for every target
\* that is not a string.
update_id(A, h, n) ==
    IF Tag(h) = "str"
    THEN [attribs |-> [A EXCEPT ![Self] =
                         DictSet(@, "xlink:href", PyStr(S_hash \o str(h)))],
          idcount |-> n]
    ELSE LET new == nextid(n)
             A1 == [A EXCEPT ![Val(h)] = DictSetDefault(@, "id", new.id)]
             idstr == A1[Val(h)]["id"]
         IN  [attribs |-> [A1 EXCEPT ![Self] =
                             DictSet(@, "xlink:href", PyStr(S_hash \o str(idstr)))],
              idcount |-> new.idcount]

Targets == {PyStr(S_foo), PyStr(S_id1)} \cup {PyElem(e) : e \in Elements}

set_href ==
    \E element \in Targets :
        LET r == update_id(attribs, element, idcount)
        IN  /\ Tag(element) = "elem" => idcount < MaxIds
            /\ href' = element
            /\ attribs' = r.attribs
            /\ idcount' = r.idcount
            /\ referenced' =
                 IF Tag(element) = "elem"
                 THEN DictSet(referenced, Val(element), r.attribs[Val(element)]["id"])
                 ELSE referenced
            /\ allocated' =
                 IF Tag(element) = "elem" /\ "id" \notin DOMAIN attribs[Val(element)]
                 THEN allocated \cup {Val(element)}
                 ELSE allocated
            /\ Called("set_href", <<element>>, NoExc)
            /\ UNCHANGED <<debug, tokens>>

NextXLink == set_href

SpecXLink == Init /\ [][NextXLink]_vars

L_hash_foo == <<"#", "f", "o", "o">>
L_hash_id1 == <<"#", "i", "d", "1">>

\* the target of the last set_href call
Target == last.args[1]

\* C3: after set_href, 'xlink:href' is '#' followed by the identifier: a
\* string target itself; for an element without 'id' the identifier taken
\* from nextid(), which is now the element's 'id'; for an element with an
\* 'id' that id, which is as before.  set_href("foo") gives "#foo".
Thm_C3 ==
    last.call = "set_href" =>
        /\ last.raised = NoExc
        /\ href = Target
        /\ "xlink:href" \in DOMAIN attribs[Self]
        /\ Tag(Target) = "str" =>
              /\ attribs[Self]["xlink:href"] = PyStr(<<"#">> \o Val(Target))
              /\ Target = PyStr(S_foo) => attribs[Self]["xlink:href"] = PyStr(L_hash_foo)
        /\ Tag(Target) = "elem" =>
              LET e == Val(Target)
              IN  /\ "id" \in DOMAIN attribs[e]
                  /\ attribs[Self]["xlink:href"] = PyStr(<<"#">> \o Val(attribs[e]["id"]))
                  /\ "id" \in DOMAIN pre.attribs[e] => attribs[e]["id"] = pre.attribs[e]["id"]
                  /\ "id" \notin DOMAIN pre.attribs[e] =>
                        /\ attribs[e]["id"] = nextid(pre.idcount).id
                        /\ pre.idcount = 0 => attribs[Self]["xlink:href"] = PyStr(L_hash_id1)

\* set_href on an element that has the id 'foo', after an earlier call
\* allocated an id for another element
Witness_C3 ==
    /\ last.call = "set_href"
    /\ Tag(Target) = "elem"
    /\ "id" \in DOMAIN pre.attribs[Val(Target)]
    /\ attribs[Val(Target)]["id"] = PyStr(S_foo)
    /\ attribs[Self]["xlink:href"] = PyStr(L_hash_foo)
    /\ allocated # {}

\* C4 as stated: set_href consumes an identifier only for an element target
\* that has no 'id'; for a string target, or an element that has an 'id',
\* the allocator is left as it was.
Orig_C4 ==
    ( /\ last.call = "set_href"
      /\ \/ Tag(Target) = "str"
         \/ "id" \in DOMAIN pre.attribs[Val(Target)] ) =>
        idcount = pre.idcount

\* C10: 'xlink:href' refers to the target of the last set_href only; every
\* element that a call referenced still has the id it had or was given
\* then; no call changes or removes an id; the elements that were given an
\* id by the allocator have pairwise distinct ids.
Thm_C10 ==
    /\ last.call = "set_href" =>
          /\ attribs[Self]["xlink:href"] =
               PyStr(<<"#">> \o (IF Tag(Target) = "str" THEN Val(Target)
                                ELSE Val(attribs[Val(Target)]["id"])))
          /\ \A e \in Elements :
                "id" \in DOMAIN pre.attribs[e] =>
                    /\ "id" \in DOMAIN attribs[e]
                    /\ attribs[e]["id"] = pre.attribs[e]["id"]
    /\ \A e \in DOMAIN referenced :
          /\ "id" \in DOMAIN attribs[e]
          /\ attribs[e]["id"] = referenced[e]
    /\ \A e1, e2 \in allocated :
          e1 # e2 => attribs[e1]["id"] # attribs[e2]["id"]

\* two elements were given ids by the allocator and the last call then
\* referred to the string 'foo'
Witness_C10 ==
    /\ last.call = "set_href"
    /\ Cardinality(allocated) >= 2
    /\ Target = PyStr(S_foo)
    /\ last.before = <<"set_href", "set_href">>
    /\ attribs[Self]["xlink:href"] = PyStr(L_hash_foo)

\* ------------------------------------------------------------- IPresentation
\* if value: self[key] = value
SetIf(a, key, value) == IF Truthy(value) THEN setitem(a, key, value) ELSE a

fill_call(a, color, rule, opacity) ==
    LET a1 == SetIf(a, "fill", color)
        a2 == SetIf(a1, "fill-rule", rule)
    IN  SetIf(a2, "fill-opacity", opacity)

viewport_fill_call(a, color, opacity) ==
    LET a1 == SetIf(a, "viewport-fill", color)
    IN  SetIf(a1, "viewport-fill-opacity", opacity)

dasharray_call(a, definition, offset) ==
    LET a1 == SetIf(a, "stroke-array", definition)
    IN  SetIf(a1, "stroke-dashoffset", offset)

\* the names the body of stroke can resolve: its parameters and the
\* globals of the module
StrokeLocals ==
    {"self", "color", "width", "opacity", "linecap", "linejoin", "miterlimit"}
ModuleGlobals ==
    {"_horiz", "_vert", "strlist", "IViewBox", "ITransform", "IXLink",
     "IPresentation"}

\* the body of stroke: the fifth test reads the name `join`
stroke_call(a, color, width, opacity, linecap, linejoin, miterlimit) ==
    LET a1 == SetIf(a, "stroke", color)
        a2 == SetIf(a1, "stroke-width", width)
        a3 == SetIf(a2, "stroke-opacity", opacity)
        a4 == SetIf(a3, "stroke-linecap", linecap)
    IN  IF "join" \notin StrokeLocals \cup ModuleGlobals
        THEN [raised |-> Exc("NameError", S_join_undefined), attribs |-> a4]
        ELSE [raised |-> NoExc,
              attribs |-> SetIf(setitem(a4, "stroke-linejoin", linejoin),
                                "stroke-miterlimit", miterlimit)]

Colors == {PyNone, PyStr(<<>>), PyStr(S_red), PyStr(S_blue)}
Rules == {PyNone, PyStr(S_evenodd)}
Opacities == {PyNone, PyInt(0), PyInt(1)}
Definitions == {PyNone, PyStr(S_dashes)}
Offsets == {PyNone, PyInt(0), PyInt(2)}

fill ==
    \E color \in Colors, rule \in Rules, opacity \in Opacities :
        /\ attribs' = [attribs EXCEPT ![Self] = fill_call(@, color, rule, opacity)]
        /\ Called("fill", <<color, rule, opacity>>, NoExc)
        /\ UNCHANGED <<href, idcount, debug, tokens, referenced, allocated>>

dasharray ==
    \E definition \in Definitions, offset \in Offsets :
        /\ attribs' = [attribs EXCEPT ![Self] = dasharray_call(@, definition, offset)]
        /\ Called("dasharray", <<definition, offset>>, NoExc)
        /\ UNCHANGED <<href, idcount, debug, tokens, referenced, allocated>>

viewport_fill ==
    \E color \in {PyNone, PyStr(S_red)}, opacity \in {PyNone, PyInt(1)} :
        /\ attribs' = [attribs EXCEPT ![Self] = viewport_fill_call(@, color, opacity)]
        /\ Called("viewport_fill", <<color, opacity>>, NoExc)
        /\ UNCHANGED <<href, idcount, debug, tokens, referenced, allocated>>

stroke ==
    \E color \in {PyNone, PyStr(S_red)}, width \in {PyNone, PyInt(2)},
       opacity \in {PyNone, PyInt(1)}, linecap \in {PyNone, PyStr(S_round)},
       linejoin \in {PyNone, PyStr(S_round)}, miterlimit \in {PyNone, PyInt(4)} :
        LET r == stroke_call(attribs[Self], color, width, opacity, linecap,
                             linejoin, miterlimit)
        IN  /\ attribs' = [attribs EXCEPT ![Self] = r.attribs]
            /\ Called("stroke",
                      <<color, width, opacity, linecap, linejoin, miterlimit>>,
                      r.raised)
            /\ UNCHANGED <<href, idcount, debug, tokens, referenced, allocated>>

InitPresentation ==
    /\ Init
    /\ debug = FALSE
    /\ \A e \in Elements : attribs[e] = EmptyDict

NextPresentation ==
    \/ fill
    \/ dasharray
    \/ viewport_fill

SpecPresentation == InitPresentation /\ [][NextPresentation]_vars

NextStroke ==
    \/ stroke
    \/ viewport_fill

SpecStroke == InitPresentation /\ [][NextStroke]_vars

\* the dict a after the setter's parameters vals were stored under the
\* attribute names keys, each parameter that is present under its own name
RECURSIVE Stored(_, _, _)
Stored(a, keys, vals) ==
    IF keys = <<>> THEN a
    ELSE Stored(IF Truthy(Head(vals)) THEN DictSet(a, Head(keys), Head(vals)) ELSE a,
                Tail(keys), Tail(vals))

StrokeKeys ==
    <<"stroke", "stroke-width", "stroke-opacity", "stroke-linecap",
      "stroke-linejoin", "stroke-miterlimit">>
FillKeys == <<"fill", "fill-rule", "fill-opacity">>
DashKeys == <<"stroke-dasharray", "stroke-dashoffset">>
ViewportKeys == <<"viewport-fill", "viewport-fill-opacity">>

\* the last call returned and left Self with exactly the attributes of its
\* present parameters set, and everything else as it was
SetsExactly(keys) ==
    /\ last.raised = NoExc
    /\ attribs[Self] = Stored(pre.attribs[Self], keys, last.args)
    /\ \A e \in Elements \ {Self} : attribs[e] = pre.attribs[e]

\* C7 as stated: stroke returns for every combination of present and
\* absent parameters and sets exactly the attributes of the present ones,
\* 'stroke-linejoin' among them.
Orig_C7 == last.call = "stroke" => SetsExactly(StrokeKeys)

\* C8 as stated: dasharray stores a present definition under
\* 'stroke-dasharray' and a present offset under 'stroke-dashoffset', and
\* writes no other key.
Orig_C8 ==
    last.call = "dasharray" =>
        /\ Truthy(last.args[1]) =>
              /\ "stroke-dasharray" \in DOMAIN attribs[Self]
              /\ attribs[Self]["stroke-dasharray"] = last.args[1]
        /\ Truthy(last.args[2]) =>
              /\ "stroke-dashoffset" \in DOMAIN attribs[Self]
              /\ attribs[Self]["stroke-dashoffset"] = last.args[2]
        /\ \A k \in (DOMAIN attribs[Self] \cup DOMAIN pre.attribs[Self])
                      \ {"stroke-dasharray", "stroke-dashoffset"} :
              /\ k \in DOMAIN attribs[Self]
              /\ k \in DOMAIN pre.attribs[Self]
              /\ attribs[Self][k] = pre.attribs[Self][k]

\* C9 as stated: fill, dasharray and viewport_fill leave the attribute of an
\* absent or falsy parameter as it was, store each present parameter as
\* given under its attribute, and change no other key.
Orig_C9 ==
    /\ last.call = "fill" => SetsExactly(FillKeys)
    /\ last.call = "dasharray" => SetsExactly(DashKeys)
    /\ last.call = "viewport_fill" => SetsExactly(ViewportKeys)

\* C9 for fill and viewport_fill alone, the setters that dasharray's
\* attribute name does not affect
C9_FillViewport ==
    /\ last.call = "fill" => SetsExactly(FillKeys)
    /\ last.call = "viewport_fill" => SetsExactly(ViewportKeys)

=============================================================================
